---- MODULE Spec2Model ----
(***************************************************************************)
(* Mood Sentinel: the alert store with its delivery state                  *)
(* (src/notify_db.py over the schema of src/alembic/versions/0001),        *)
(* the notification channel (src/notify.py), the alert gate                *)
(* (src/rules.py, MoodRules), the rule engine (src/rules.py, RuleEngine),  *)
(* feature extraction (src/features.py), the processing cycle, main's     *)
(* loop and the persisting of an alert (src/main.py), the delivery         *)
(* statistics (src/notify_db.py) and the trend analysis (src/report.py).   *)
(*                                                                         *)
(* Time is counted in whole hours.  Mood scores and thresholds are         *)
(* counted in tenths (0.2 is 2).                                           *)
(***************************************************************************)
EXTENDS Integers, Sequences, FiniteSets, Bags, TLC

\* ------------------------------------------------------------------ bounds
\* Rows the delivery store may hold.
MaxAlerts == 2
\* Last hour the store's clock reaches.
MaxTime == 2

\* Alerts the gate's history may hold.
MaxHistory == 5
\* The gate's candidates are stamped from the hour before midnight to
\* GateSpan - 1 hours after it.
GateSpan == 2

\* Rows the processing cycles may persist, and cycles the processes may
\* begin in all.
MaxRows == 3
MaxCycles == 2
\* Periodic reports the cycles may write.
MaxPeriodic == 1

\* Posts one extraction may return.
MaxPosts == 6

\* Analysis results one trend analysis may be given.
MaxEntries == 4

\* ------------------------------------------------------- program constants
\* MoodRules.__init__: the defaults of the thresholds (tenths) and of the policy.
critical_threshold == 2
warning_threshold == 4
recovery_threshold == 6
default_cooldown_hours == 2
default_max_alerts_per_day == 5
\* datetime.date(): a calendar day is 24 hours.
HoursPerDay == 24
\* RuleEngine.__init__: the defaults of the rule thresholds (sentiment and
\* engagement in tenths), and the sentiment below which the severity is HIGH.
sentiment_threshold == -5
engagement_threshold == 2
volume_spike_threshold == 2
high_sentiment == -8
\* sent_at and delivery_channel are nullable; NULL is written NoTime / NoChannel.
NoTime == -1
NoChannel == "NULL"
\* send_alerts_from_db calls mark_alerts_as_delivered(alert_ids): the default channel.
DefaultChannel == "telegram"

Coordinators == {"c1", "c2"}
Channels == {"telegram", "email"}
Urgencies == {"critical", "high", "medium", "low"}
\* What the Telegram API call can come to: HTTP 200, an HTTP error status (the
\* API rejects the message), or a RequestException (timeout, no connection).
Responses == {"200", "400", "timeout"}
\* since_hours is a parameter of send_alerts_from_db (--since-hours, default
\* 24); a deployment runs its coordinators with one value.
SinceHoursChoices == {1, 24}
\* The server's time zone: UTC, and one hour east of it.
UtcOffsets == {0, 1}

Users == {"u1", "u2"}
\* Scores at and between the critical and the warning threshold: a CRITICAL,
\* a WARNING and a NEUTRAL one.
ScoreChoices == {2, 4, 5}
\* Scores from the warning threshold to the recovery threshold: a WARNING, a
\* NEUTRAL and a POSITIVE one.
CalmScores == {4, 5, 6}
\* The scores a mood score may take: 0 (very negative) to 1 (very positive).
AllScores == 0..10
GateTimes == (HoursPerDay - 1)..(HoursPerDay + GateSpan - 1)
\* config['alert_cooldown_hours'], config['max_alerts_per_day']: the defaults
\* and a tighter policy.
DefaultPolicy ==
    [alert_cooldown |-> default_cooldown_hours,
     max_alerts_per_day |-> default_max_alerts_per_day]
PolicyChoices == {DefaultPolicy, [alert_cooldown |-> 0, max_alerts_per_day |-> 2]}
\* A config whose policy values are negative.
NegativePolicy == [alert_cooldown |-> -1, max_alerts_per_day |-> -1]
\* config['critical_threshold'], ['warning_threshold'], ['recovery_threshold']:
\* the defaults, and a setting whose thresholds are out of order.
DefaultThresholds ==
    [critical_threshold |-> critical_threshold,
     warning_threshold |-> warning_threshold,
     recovery_threshold |-> recovery_threshold]
ThresholdChoices ==
    {DefaultThresholds,
     [critical_threshold |-> 5, warning_threshold |-> 3, recovery_threshold |-> 4]}

\* The processes that run main's processing cycle.
Processes == {"m1", "m2"}
\* Feature snapshots the cycles evaluate: calm and negative, each with and
\* without crisis keywords.
CycleFeatures ==
    [avg_sentiment : {0, -6}, engagement_score : {5}, post_volume : {10},
     avg_post_volume : {10}, crisis_keywords : {<<>>, <<"help">>}]

\* config['sentiment_threshold'], ['engagement_threshold'] and
\* ['volume_spike_threshold']: the defaults and another setting.
DefaultRules ==
    [sentiment_threshold |-> sentiment_threshold,
     engagement_threshold |-> engagement_threshold,
     volume_spike_threshold |-> volume_spike_threshold]
RuleChoices ==
    {DefaultRules,
     [sentiment_threshold |-> -9, engagement_threshold |-> 5, volume_spike_threshold |-> 1]}
\* Snapshots with every key, at, below and above the thresholds, and
\* snapshots with keys missing.
FullSnapshots ==
    [avg_sentiment : {-10, -9, -8, -6, -5, 0}, engagement_score : {1, 2, 5},
     post_volume : {10, 20, 21}, avg_post_volume : {10},
     crisis_keywords : {<<>>, <<"help">>}]
SnapshotKeys ==
    {"avg_sentiment", "engagement_score", "post_volume", "avg_post_volume",
     "crisis_keywords"}
PartialSnapshots ==
    LET base == [avg_sentiment |-> -6, engagement_score |-> 5, post_volume |-> 21,
                 avg_post_volume |-> 10, crisis_keywords |-> <<"help">>]
    IN {[k \in D |-> base[k]] : D \in {SnapshotKeys \ {x} : x \in SnapshotKeys} \cup {{}}}
Snapshots == FullSnapshots \cup PartialSnapshots

VARIABLES
    now,                \* the wall clock, in hours
    alerts,             \* the alerts table: a sequence of rows, id = index
    telegram_enabled,   \* NotificationService.telegram_enabled
    since_hours,        \* the look-back the coordinators are run with
    utc_offset,         \* the hours the server's local time is ahead of UTC
    notification_service, \* whether self.notification_service is there (not None)
    cpc,                \* each coordinator's position in send_alerts_from_db
    batch,              \* each coordinator's local `alerts` (ids, in listing order)
    result,             \* what each coordinator's last invocation returned
    inv,                \* history of each coordinator's last invocation
    lastMark,           \* history of the last direct mark_alerts_as_delivered call
    policy,             \* MoodRules.alert_cooldown and MoodRules.max_alerts_per_day
    thresholds,         \* MoodRules' critical, warning and recovery thresholds
    history,            \* recent_alerts: a bag of the alerts admitted so far
    evaluation,         \* the evaluation being gated
    decision,           \* what should_send_alert returned for it
    gpc,                \* "idle", or "gated" between the gate and the record
    db,                 \* main's alerts table: a sequence of rows, id = index
    ppc,                \* each process's position in its cycle
    todo,               \* the alerts process_alerts has still to save
    run,                \* history: the number of the cycle each process is in
    cycle_alerts,       \* main's alerts: what evaluate last returned
    left_at,            \* history: where each process stood when it left the loop
    report_file,        \* history: the alerts and periodic reports written to the daily report file
    outbox,             \* history: the alerts and periodic reports handed to Telegram
    rules,              \* RuleEngine's thresholds
    snapshot,           \* the features RuleEngine.evaluate was last called with
    candidates,         \* the alerts it returned
    epc,                \* "idle", or "done" right after an evaluation
    mpc,                \* main.py's position: "import", or "import_error"
    fpc,                \* "idle", or "done" right after FeatureExtractor.process
    raw_data,           \* raw_data: the posts FeatureExtractor.process was last given
    main_features,      \* features: what it returned
    written,            \* the alert dict save_alert_to_database was last given
    stored,             \* the row it inserted
    readback,           \* the alert read back from that row
    rpc,                \* "idle", "stored" after the insert, "read" after the read
    statistics,         \* what get_alert_statistics last returned
    spc,                \* "idle", or "done" right after get_alert_statistics
    results,            \* the analysis results _analyze_trends was last given
    trends,             \* what it returned
    tpc                 \* "idle", or "done" right after _analyze_trends

gateVars == <<policy, thresholds, history, evaluation, decision, gpc>>

storeVars == <<now, alerts, telegram_enabled, since_hours, utc_offset, notification_service, cpc, batch, result, inv, lastMark>>

cycleVars == <<db, ppc, todo, run, cycle_alerts, left_at, report_file, outbox>>

evalVars == <<rules, snapshot, candidates, epc>>

mainVars == <<mpc, fpc, raw_data, main_features>>

persistVars == <<written, stored, readback, rpc>>

reportVars == <<statistics, spc, results, trends, tpc>>

restVars == <<evalVars, mainVars, persistVars, reportVars>>

\* ------------------------------------------------------------------ helpers
SeqToSet(s) == {s[i] : i \in DOMAIN s}

\* Python: bool is an int, True == 1 and False == 0.
BoolAsInt(b) == IF b THEN 1 ELSE 0

\* ---------------------------------------------------------------- the store
\* CURRENT_TIMESTAMP is the time in UTC, while datetime.now(), the clock of the
\* listing, of the statistics and of sent_at, is the server's local time.
CURRENT_TIMESTAMP == now - utc_offset

\* A row as the alerts table creates it: delivery_status defaults to 'pending',
\* created_at to CURRENT_TIMESTAMP, sent_at and delivery_channel are NULL.
NewRow(urgency, t) ==
    [delivery_status |-> "pending", sent_at |-> NoTime,
     delivery_channel |-> NoChannel, created_at |-> t, urgency |-> urgency]

\* The rank of an urgency text in SQL's string order
\* ('critical' < 'high' < 'low' < 'medium').
UrgencyText(u) ==
    CASE u = "critical" -> 0 [] u = "high" -> 1 [] u = "low" -> 2 [] u = "medium" -> 3

\* ORDER BY a.urgency DESC, a.created_at ASC: row i has to come before row j.
\* Rows equal in both columns are in no order.
ListedBefore(i, j) ==
    \/ UrgencyText(alerts[i].urgency) > UrgencyText(alerts[j].urgency)
    \/ /\ alerts[i].urgency = alerts[j].urgency
       /\ alerts[i].created_at < alerts[j].created_at

\* The orders the query may return the rows S in: every order that agrees
\* with ORDER BY; which one of them SQLite returns for rows equal in both
\* columns depends on the query plan.
RECURSIVE OrderRows(_)
OrderRows(S) ==
    IF S = {} THEN {<<>>}
    ELSE UNION {{<<x>> \o rest : rest \in OrderRows(S \ {x})} :
                    x \in {y \in S : \A z \in S \ {y} : ~ListedBefore(z, y)}}

\* Mutant: the listing does not filter on the delivery status.
PendingSince_AnyStatus(since) ==
    {i \in DOMAIN alerts : alerts[i].created_at >= now - since}

\* WHERE a.delivery_status = 'pending' AND a.created_at >= :cutoff_time
PendingSince(since) ==
    {i \in DOMAIN alerts :
        /\ alerts[i].delivery_status = "pending"
        /\ alerts[i].created_at >= now - since}

\* get_undelivered_alerts: the lists it may return: the listing in one of its
\* orders, or [] when the store raised.
get_undelivered_alerts(since, db_ok) ==
    IF db_ok THEN OrderRows(PendingSince(since)) ELSE {<<>>}

\* The UPDATE of mark_alerts_as_delivered: WHERE id IN :alert_ids.
UpdateDelivered(ids, channel) ==
    [i \in DOMAIN alerts |->
        IF i \in ids
        THEN [alerts[i] EXCEPT !.delivery_status = "delivered",
                               !.sent_at = now,
                               !.delivery_channel = channel]
        ELSE alerts[i]]

\* mark_alerts_as_delivered's return value: False for no ids or a store
\* error, True otherwise.
MarkReturns(ids, db_ok) == ids # {} /\ db_ok

\* The table after mark_alerts_as_delivered(ids, channel).
MarkTable(ids, channel, db_ok) ==
    IF MarkReturns(ids, db_ok) THEN UpdateDelivered(ids, channel) ELSE alerts

\* History: the rows a change of the table moved from pending to delivered.
MovedBy(new) ==
    {i \in DOMAIN alerts :
        alerts[i].delivery_status = "pending" /\ new[i].delivery_status = "delivered"}

\* -------------------------------------------------------------- the channel
\* NotificationService.send_telegram_message with Telegram enabled: True for
\* status 200, False for any other status and for an exception.
send_telegram_message(response) == response = "200"

\* NotificationService.send_alerts on a non-empty list: success starts True
\* and is and-ed with the Telegram result only when Telegram is enabled.
send_alerts(response) ==
    IF telegram_enabled THEN send_telegram_message(response) ELSE TRUE

\* ------------------------------------------------------------- store: Init
\* History of an invocation: whether a channel confirmed a message, how many
\* rows its mark moved from pending to delivered, which coordinators were
\* inside an invocation of their own while it ran, the batch when send_alerts
\* failed, the batch when the channel rejected the message, and whether the
\* store raised while the undelivered alerts were listed.
NoInvocation ==
    [confirmed |-> FALSE, moved |-> 0, overlap |-> {}, failed |-> {}, rejected |-> {},
     read_failed |-> FALSE]

NoResult == [success |-> FALSE, alerts_sent |-> 0]

\* The store empty and the coordinators idle, under the deployment's settings:
\* DatabaseNotificationService.__init__ leaves notification_service None when
\* notify cannot be imported or NotificationService(config) raises.
StoreStartIn(service, telegram, since, zone) ==
    /\ now = 0
    /\ alerts = <<>>
    /\ notification_service = service
    /\ telegram_enabled = telegram
    /\ since_hours = since
    /\ utc_offset = zone
    /\ cpc = [c \in Coordinators |-> "idle"]
    /\ batch = [c \in Coordinators |-> <<>>]
    /\ result = [c \in Coordinators |-> NoResult]
    /\ inv = [c \in Coordinators |-> NoInvocation]
    /\ lastMark = [called |-> FALSE, returned |-> FALSE, moved |-> 0]

\* A server on UTC whose notification service is there.
StoreStart(telegram, since) == StoreStartIn(TRUE, telegram, since, 0)

\* Without a notification service there is no telegram_enabled to read.
StoreInit ==
    \E service \in BOOLEAN, telegram \in BOOLEAN,
       since \in SinceHoursChoices, zone \in UtcOffsets :
        /\ ~service => ~telegram
        /\ StoreStartIn(service, telegram, since, zone)

\* ----------------------------------------------------------------- actions
Tick ==
    /\ now < MaxTime
    /\ now' = now + 1
    /\ UNCHANGED <<alerts, telegram_enabled, since_hours, utc_offset, notification_service, cpc, batch, result, inv, lastMark>>
    /\ UNCHANGED <<gateVars, cycleVars, restVars>>

\* A row enters the alerts table.
InsertAlert(U) ==
    /\ Len(alerts) < MaxAlerts
    /\ \E u \in U : alerts' = Append(alerts, NewRow(u, CURRENT_TIMESTAMP))
    /\ UNCHANGED <<now, telegram_enabled, since_hours, utc_offset, notification_service, cpc, batch, result, inv, lastMark>>
    /\ UNCHANGED <<gateVars, cycleVars, restVars>>

\* mark_alerts_as_delivered(alert_ids, delivery_channel), called directly.
MarkDelivered ==
    \E ids \in SUBSET (DOMAIN alerts), ch \in Channels, db_ok \in BOOLEAN :
        LET new == MarkTable(ids, ch, db_ok) IN
        /\ alerts' = new
        /\ lastMark' = [called |-> TRUE,
                        returned |-> MarkReturns(ids, db_ok),
                        moved |-> Cardinality(MovedBy(new))]
        /\ UNCHANGED <<now, telegram_enabled, since_hours, utc_offset, notification_service, cpc, batch, result, inv>>
        /\ UNCHANGED <<gateVars, cycleVars, restVars>>

\* History kept when coordinator c starts an invocation that lists `ids`.
StartInvocation(c) ==
    [d \in Coordinators |->
        IF d = c
        THEN [NoInvocation EXCEPT
                !.overlap = {e \in Coordinators \ {c} : cpc[e] # "idle"}]
        ELSE [inv[d] EXCEPT
                !.overlap = IF cpc[d] # "idle" THEN @ \cup {c} ELSE @ \ {c}]]

\* send_alerts_from_db up to the call of send_alerts: the listing, and the
\* return for an empty listing.
CoordListWith(c, db_ok) ==
    /\ cpc[c] = "idle"
    /\ \E listed \in get_undelivered_alerts(since_hours, db_ok) :
        IF listed = <<>>
        THEN /\ result' = [result EXCEPT ![c] =
                    [success |-> TRUE, alerts_sent |-> 0]]
             /\ UNCHANGED <<cpc, batch>>
        ELSE /\ cpc' = [cpc EXCEPT ![c] = "listed"]
             /\ batch' = [batch EXCEPT ![c] = listed]
             /\ UNCHANGED result
    /\ inv' = [StartInvocation(c) EXCEPT ![c].read_failed = ~db_ok]
    /\ UNCHANGED <<now, alerts, telegram_enabled, since_hours, utc_offset, notification_service, lastMark>>
    /\ UNCHANGED <<gateVars, cycleVars, restVars>>

CoordList(c) == \E db_ok \in BOOLEAN : CoordListWith(c, db_ok)

\* The return when there is no notification service; otherwise
\* send_alerts(alerts), and the return when it failed.
CoordSendWith(c, response) ==
    /\ cpc[c] = "listed"
    /\ IF ~notification_service
       THEN /\ UNCHANGED inv
            /\ cpc' = [cpc EXCEPT ![c] = "idle"]
            /\ result' = [result EXCEPT ![c] =
                    [success |-> FALSE, alerts_sent |-> 0]]
            /\ batch' = [batch EXCEPT ![c] = <<>>]
       ELSE /\ inv' = [inv EXCEPT
                    ![c].confirmed = telegram_enabled /\ response = "200",
                    ![c].failed = IF send_alerts(response) THEN {} ELSE SeqToSet(batch[c]),
                    ![c].rejected = IF telegram_enabled /\ response = "400"
                                    THEN SeqToSet(batch[c]) ELSE {}]
            /\ IF send_alerts(response)
               THEN /\ cpc' = [cpc EXCEPT ![c] = "sent"]
                    /\ UNCHANGED <<result, batch>>
               ELSE /\ cpc' = [cpc EXCEPT ![c] = "idle"]
                    /\ result' = [result EXCEPT ![c] =
                            [success |-> FALSE, alerts_sent |-> 0]]
                    /\ batch' = [batch EXCEPT ![c] = <<>>]
    /\ UNCHANGED <<now, alerts, telegram_enabled, since_hours, utc_offset, notification_service, lastMark>>
    /\ UNCHANGED <<gateVars, cycleVars, restVars>>

CoordSend(c) == \E response \in Responses : CoordSendWith(c, response)

\* mark_alerts_as_delivered(alert_ids) and the return after it.
CoordMarkWith(c, db_ok) ==
    /\ cpc[c] = "sent"
    /\ LET ids == SeqToSet(batch[c])
           new == MarkTable(ids, DefaultChannel, db_ok) IN
        /\ alerts' = new
        /\ inv' = [inv EXCEPT ![c].moved = Cardinality(MovedBy(new))]
        /\ result' = [result EXCEPT ![c] =
                [success |-> MarkReturns(ids, db_ok),
                 alerts_sent |-> Len(batch[c])]]
    /\ cpc' = [cpc EXCEPT ![c] = "idle"]
    /\ batch' = [batch EXCEPT ![c] = <<>>]
    /\ UNCHANGED <<now, telegram_enabled, since_hours, utc_offset, notification_service, lastMark>>
    /\ UNCHANGED <<gateVars, cycleVars, restVars>>

CoordMark(c) == \E db_ok \in BOOLEAN : CoordMarkWith(c, db_ok)

\* ----------------------------------------------------------------- the gate
\* evaluate_mood_score: the band of a score, and whether it asks for action.
\* Mutant: the bands are bounded with < and > instead of <= and >=.
AlertLevel_StrictBounds(mood_score) ==
    IF mood_score < thresholds.critical_threshold THEN "CRITICAL"
    ELSE IF mood_score < thresholds.warning_threshold THEN "WARNING"
    ELSE IF mood_score > thresholds.recovery_threshold THEN "POSITIVE"
    ELSE "NEUTRAL"

AlertLevel(mood_score) ==
    IF mood_score <= thresholds.critical_threshold THEN "CRITICAL"
    ELSE IF mood_score <= thresholds.warning_threshold THEN "WARNING"
    ELSE IF mood_score >= thresholds.recovery_threshold THEN "POSITIVE"
    ELSE "NEUTRAL"

evaluate_mood_score(mood_score, user_id, timestamp) ==
    [user_id |-> user_id, mood_score |-> mood_score, timestamp |-> timestamp,
     alert_level |-> AlertLevel(mood_score),
     action_required |-> AlertLevel(mood_score) \in {"CRITICAL", "WARNING"}]

\* alert['timestamp'].date()
DateOf(t) == t \div HoursPerDay

\* Mutant: an alert exactly cooldown hours old still counts as similar.
recent_similar_alerts_Inclusive(e, recent_alerts) ==
    LET Similar(a) == /\ a.user_id = e.user_id
                      /\ a.alert_level = e.alert_level
                      /\ e.timestamp - a.timestamp <= policy.alert_cooldown
    IN [a \in {x \in DOMAIN recent_alerts : Similar(x)} |-> recent_alerts[a]]

\* The list comprehensions over recent_alerts keep the alerts that pass the
\* test, each as often as recent_alerts holds it.
recent_similar_alerts(e, recent_alerts) ==
    LET Similar(a) == /\ a.user_id = e.user_id
                      /\ a.alert_level = e.alert_level
                      /\ e.timestamp - a.timestamp < policy.alert_cooldown
    IN [a \in {x \in DOMAIN recent_alerts : Similar(x)} |-> recent_alerts[a]]

today_alerts(e, recent_alerts) ==
    LET Today(a) == /\ a.user_id = e.user_id
                    /\ DateOf(a.timestamp) = DateOf(e.timestamp)
    IN [a \in {x \in DOMAIN recent_alerts : Today(x)} |-> recent_alerts[a]]

\* Mutant: critical evaluations go through the cooldown and the daily limit.
should_send_alert_NoCriticalBypass(e, recent_alerts) ==
    IF ~e.action_required THEN FALSE
    ELSE IF recent_similar_alerts(e, recent_alerts) # EmptyBag THEN FALSE
    ELSE IF BagCardinality(today_alerts(e, recent_alerts))
                >= policy.max_alerts_per_day THEN FALSE
    ELSE TRUE

\* Mutant: the daily limit compares with > instead of >=.
should_send_alert_LimitOffByOne(e, recent_alerts) ==
    IF ~e.action_required THEN FALSE
    ELSE IF e.alert_level = "CRITICAL" THEN TRUE
    ELSE IF recent_similar_alerts(e, recent_alerts) # EmptyBag THEN FALSE
    ELSE IF BagCardinality(today_alerts(e, recent_alerts))
                > policy.max_alerts_per_day THEN FALSE
    ELSE TRUE

\* Mutant: an evaluation that asks for no action goes on to the other checks.
should_send_alert_NoActionCheck(e, recent_alerts) ==
    IF e.alert_level = "CRITICAL" THEN TRUE
    ELSE IF recent_similar_alerts(e, recent_alerts) # EmptyBag THEN FALSE
    ELSE IF BagCardinality(today_alerts(e, recent_alerts))
                >= policy.max_alerts_per_day THEN FALSE
    ELSE TRUE

\* Mutant: the daily limit is not checked.
should_send_alert_NoDailyLimit(e, recent_alerts) ==
    IF ~e.action_required THEN FALSE
    ELSE IF e.alert_level = "CRITICAL" THEN TRUE
    ELSE IF recent_similar_alerts(e, recent_alerts) # EmptyBag THEN FALSE
    ELSE TRUE

should_send_alert(e, recent_alerts) ==
    IF ~e.action_required THEN FALSE
    ELSE IF e.alert_level = "CRITICAL" THEN TRUE
    ELSE IF recent_similar_alerts(e, recent_alerts) # EmptyBag THEN FALSE
    ELSE IF BagCardinality(today_alerts(e, recent_alerts))
                >= policy.max_alerts_per_day THEN FALSE
    ELSE TRUE

\* What the history keeps of an admitted alert.
HistoryEntry(e) ==
    [user_id |-> e.user_id, alert_level |-> e.alert_level, timestamp |-> e.timestamp]

NoEvaluation == evaluate_mood_score(5, "u1", 0)

\* MoodRules.__init__: the policy and the thresholds as the config gives
\* them, and the gate with an empty history.
GateStartWith(p, th) ==
    /\ policy = p
    /\ thresholds = th
    /\ history = EmptyBag
    /\ evaluation = NoEvaluation
    /\ decision = FALSE
    /\ gpc = "idle"

\* The gate with an empty history, under a policy and the default thresholds.
GateStart(p) ==
    /\ policy = p
    /\ thresholds = DefaultThresholds
    /\ history = EmptyBag
    /\ evaluation = NoEvaluation
    /\ decision = FALSE
    /\ gpc = "idle"

\* A score out of S is evaluated and its evaluation is put to the gate.
GateWith(S) ==
    /\ gpc = "idle"
    /\ \E u \in Users, score \in S, t \in GateTimes :
        LET e == evaluate_mood_score(score, u, t) IN
        /\ evaluation' = e
        /\ decision' = should_send_alert(e, history)
    /\ gpc' = "gated"
    /\ UNCHANGED <<policy, thresholds, history>>
    /\ UNCHANGED <<storeVars, cycleVars, restVars>>

Gate == GateWith(ScoreChoices)

\* The gate on days without a critical score.
CalmGate == GateWith(CalmScores)

\* An admitted alert joins the history; a denied one is dropped.
Record ==
    /\ gpc = "gated"
    /\ decision => BagCardinality(history) < MaxHistory
    /\ history' = IF decision
                  THEN history (+) SetToBag({HistoryEntry(evaluation)})
                  ELSE history
    /\ evaluation' = NoEvaluation
    /\ decision' = FALSE
    /\ gpc' = "idle"
    /\ UNCHANGED <<policy, thresholds>>
    /\ UNCHANGED <<storeVars, cycleVars, restVars>>

GateNext ==
    \/ Gate
    \/ Record

CalmNext ==
    \/ CalmGate
    \/ Record

\* evaluate_mood_score(mood_score, user_id, timestamp) on its own; without a
\* timestamp the evaluation is stamped with the clock.
Score ==
    /\ gpc = "idle"
    /\ \E u \in Users, score \in AllScores, t \in GateTimes \cup {now} :
        evaluation' = evaluate_mood_score(score, u, t)
    /\ gpc' = "scored"
    /\ UNCHANGED <<policy, thresholds, history, decision>>
    /\ UNCHANGED <<storeVars, cycleVars, restVars>>

\* The caller has taken the evaluation.
ScoreReturn ==
    /\ gpc = "scored"
    /\ evaluation' = NoEvaluation
    /\ gpc' = "idle"
    /\ UNCHANGED <<policy, thresholds, history, decision>>
    /\ UNCHANGED <<storeVars, cycleVars, restVars>>

ScoreNext ==
    \/ Tick
    \/ Score
    \/ ScoreReturn

\* ---------------------------------------------------- the processing cycle
\* RuleEngine.evaluate: one alert for each rule whose condition holds, in the
\* order sentiment, engagement, volume, keywords, stamped with the time t.
Alert(type, severity, t) == [type |-> type, severity |-> severity, timestamp |-> t]

\* dict.get(key, default)
Get(d, key, default) == IF key \in DOMAIN d THEN d[key] ELSE default

\* Mutant: the keyword rule is an elif of the volume rule.
evaluate_KeywordsUnlessSpike(features, t) ==
    LET avg_sentiment == Get(features, "avg_sentiment", 0)
        engagement_score == Get(features, "engagement_score", 0)
        post_volume == Get(features, "post_volume", 0)
        avg_volume == Get(features, "avg_post_volume", 1)
        crisis_keywords == Get(features, "crisis_keywords", <<>>)
    IN (IF avg_sentiment < rules.sentiment_threshold
        THEN <<Alert("NEGATIVE_SENTIMENT",
                     IF avg_sentiment < high_sentiment THEN "HIGH" ELSE "MEDIUM", t)>>
        ELSE <<>>)
       \o (IF engagement_score < rules.engagement_threshold
           THEN <<Alert("LOW_ENGAGEMENT", "LOW", t)>> ELSE <<>>)
       \o (IF post_volume > avg_volume * rules.volume_spike_threshold
           THEN <<Alert("ACTIVITY_SPIKE", "MEDIUM", t)>>
           ELSE IF crisis_keywords # <<>>
                THEN <<Alert("CRISIS_KEYWORDS", "CRITICAL", t)>> ELSE <<>>)

\* Mutant: the engagement rule compares with <= instead of <.
evaluate_EngagementAtThreshold(features, t) ==
    LET avg_sentiment == Get(features, "avg_sentiment", 0)
        engagement_score == Get(features, "engagement_score", 0)
        post_volume == Get(features, "post_volume", 0)
        avg_volume == Get(features, "avg_post_volume", 1)
        crisis_keywords == Get(features, "crisis_keywords", <<>>)
    IN (IF avg_sentiment < rules.sentiment_threshold
        THEN <<Alert("NEGATIVE_SENTIMENT",
                     IF avg_sentiment < high_sentiment THEN "HIGH" ELSE "MEDIUM", t)>>
        ELSE <<>>)
       \o (IF engagement_score <= rules.engagement_threshold
           THEN <<Alert("LOW_ENGAGEMENT", "LOW", t)>> ELSE <<>>)
       \o (IF post_volume > avg_volume * rules.volume_spike_threshold
           THEN <<Alert("ACTIVITY_SPIKE", "MEDIUM", t)>> ELSE <<>>)
       \o (IF crisis_keywords # <<>>
           THEN <<Alert("CRISIS_KEYWORDS", "CRITICAL", t)>> ELSE <<>>)

evaluate(features, t) ==
    LET avg_sentiment == Get(features, "avg_sentiment", 0)
        engagement_score == Get(features, "engagement_score", 0)
        post_volume == Get(features, "post_volume", 0)
        avg_volume == Get(features, "avg_post_volume", 1)
        crisis_keywords == Get(features, "crisis_keywords", <<>>)
    IN (IF avg_sentiment < rules.sentiment_threshold
        THEN <<Alert("NEGATIVE_SENTIMENT",
                     IF avg_sentiment < high_sentiment THEN "HIGH" ELSE "MEDIUM", t)>>
        ELSE <<>>)
       \o (IF engagement_score < rules.engagement_threshold
           THEN <<Alert("LOW_ENGAGEMENT", "LOW", t)>> ELSE <<>>)
       \o (IF post_volume > avg_volume * rules.volume_spike_threshold
           THEN <<Alert("ACTIVITY_SPIKE", "MEDIUM", t)>> ELSE <<>>)
       \o (IF crisis_keywords # <<>>
           THEN <<Alert("CRISIS_KEYWORDS", "CRITICAL", t)>> ELSE <<>>)

\* RuleEngine under thresholds r, before any evaluation.
EvalStart(r) ==
    /\ rules = r
    /\ snapshot = [k \in {} |-> 0]
    /\ candidates = <<>>
    /\ epc = "idle"

\* rule_engine.evaluate(features) on a snapshot.
Evaluate ==
    /\ epc = "idle"
    /\ \E f \in Snapshots :
        /\ snapshot' = f
        /\ candidates' = evaluate(f, now)
    /\ epc' = "done"
    /\ UNCHANGED rules
    /\ UNCHANGED <<storeVars, gateVars, cycleVars, mainVars, persistVars, reportVars>>

\* The caller has taken the alerts.
EvaluateReturn ==
    /\ epc = "done"
    /\ epc' = "idle"
    /\ candidates' = <<>>
    /\ UNCHANGED <<rules, snapshot>>
    /\ UNCHANGED <<storeVars, gateVars, cycleVars, mainVars, persistVars, reportVars>>

EvalNext ==
    \/ Evaluate
    \/ EvaluateReturn

\* The positions of a process inside a cycle that has alerts or a periodic
\* report: before an insert, before the report file, before send_alerts,
\* inside it once the message is handed over, before the periodic report is
\* written, before send_report, inside it once the message is handed over.
InCycle ==
    {"persist", "report", "notify", "posted", "periodic", "periodic_send",
     "periodic_posted"}

\* History: the cycles of the other processes that are under way.
CyclesUnderWay(p) ==
    {<<q, run[q]>> : q \in {r \in Processes \ {p} : ppc[r] \in InCycle}}

\* save_alert_to_database: the row of the INSERT; created_at defaults to
\* CURRENT_TIMESTAMP.  `by` and `during` are history: the cycle that wrote the
\* row and the cycles under way when it did.
SavedRow(alert, p) ==
    [alert_type |-> alert.type, severity |-> alert.severity,
     timestamp |-> alert.timestamp, created_at |-> CURRENT_TIMESTAMP,
     by |-> <<p, run[p]>>, during |-> CyclesUnderWay(p)]

\* The alerts all processes have still to save.
RECURSIVE TodoTotal(_)
TodoTotal(P) ==
    IF P = {} THEN 0
    ELSE LET q == CHOOSE r \in P : TRUE IN Len(todo[q]) + TodoTotal(P \ {q})

\* History: the cycles all processes have begun.
RECURSIVE RunTotal(_)
RunTotal(P) ==
    IF P = {} THEN 0
    ELSE LET q == CHOOSE r \in P : TRUE IN run[q] + RunTotal(P \ {q})

CycleStart ==
    /\ db = <<>>
    /\ ppc = [p \in Processes |-> "idle"]
    /\ todo = [p \in Processes |-> <<>>]
    /\ run = [p \in Processes |-> 0]
    /\ cycle_alerts = [p \in Processes |-> <<>>]
    /\ left_at = [p \in Processes |-> ""]
    /\ report_file = {}
    /\ outbox = {}

\* History: the alerts of p's cycle as the report file and the channel see
\* them, each with the cycle it belongs to.
Shown(p) ==
    {[by |-> <<p, run[p]>>, type |-> cycle_alerts[p][k].type] : k \in DOMAIN cycle_alerts[p]}

\* The periodic report of p's cycle as the report file and the channel see
\* it: create_periodic_report is given the features, not the alerts.
PeriodicReport(p) == [by |-> <<p, run[p]>>, type |-> "PERIODIC_REPORT"]

\* The periodic reports written and about to be written.
PeriodicTotal ==
    Cardinality({e \in report_file : e.type = "PERIODIC_REPORT"})
        + Cardinality({q \in Processes : ppc[q] = "periodic"})

\* The alerts among the entries of a report file or an outbox.
AlertsIn(entries) == {e \in entries : e.type # "PERIODIC_REPORT"}

\* An exception reaches `except Exception` around the loop: sys.exit(1).
Fatal(p, at) ==
    /\ ppc' = [ppc EXCEPT ![p] = "fatal"]
    /\ left_at' = [left_at EXCEPT ![p] = at]

\* The loop of main is entered once its components are built, which takes a
\* report module that provides ReportGenerator (see MainImport); the actions
\* below follow the statements of the loop body from there.
\*
\* The loop body up to process_alerts, with the features main has: without
\* data the cycle is over; with data main hands rule_engine.evaluate the list
\* that feature_extractor.process returned, features.get raises
\* AttributeError, and main exits before anything is saved, reported or sent.
CycleEvaluate(p) ==
    /\ ppc[p] = "idle"
    /\ RunTotal(Processes) < MaxCycles
    /\ \E extracted \in BOOLEAN :
        IF extracted THEN Fatal(p, "evaluate") ELSE UNCHANGED <<ppc, left_at>>
    /\ run' = [run EXCEPT ![p] = @ + 1]
    /\ UNCHANGED <<db, todo, cycle_alerts, report_file, outbox>>
    /\ UNCHANGED <<storeVars, gateVars, restVars>>

\* The same lines with a dict of features, which is what RuleEngine.evaluate
\* takes: alerts = rule_engine.evaluate(features), and process_alerts is
\* entered when there are alerts.  Without alerts main goes on to
\* should_generate_report, which is true when the minute of the clock is 0
\* (in weekly mode: on Monday at 9).
CycleAlerts(p) ==
    /\ ppc[p] = "idle"
    /\ RunTotal(Processes) < MaxCycles
    /\ \E f \in CycleFeatures, on_the_hour \in BOOLEAN :
        LET found == evaluate(f, now) IN
        /\ Len(db) + TodoTotal(Processes) + Len(found) <= MaxRows
        /\ (found = <<>> /\ on_the_hour) => PeriodicTotal < MaxPeriodic
        /\ todo' = [todo EXCEPT ![p] = found]
        /\ cycle_alerts' = [cycle_alerts EXCEPT ![p] = found]
        /\ ppc' = [ppc EXCEPT ![p] = IF found # <<>> THEN "persist"
                                     ELSE IF on_the_hour THEN "periodic" ELSE "idle"]
    /\ run' = [run EXCEPT ![p] = @ + 1]
    /\ UNCHANGED <<db, left_at, report_file, outbox, storeVars, gateVars, restVars>>

\* Mutant: an insert that raises is passed over and the loop goes on.
CycleSaveWith_IgnoreFailure(p, db_ok) ==
    /\ ppc[p] = "persist"
    /\ db' = IF db_ok THEN Append(db, SavedRow(Head(todo[p]), p)) ELSE db
    /\ todo' = [todo EXCEPT ![p] = Tail(@)]
    /\ ppc' = [ppc EXCEPT ![p] = IF Len(todo[p]) = 1 THEN "report" ELSE "persist"]
    /\ UNCHANGED <<run, cycle_alerts, left_at, report_file, outbox, storeVars, gateVars, restVars>>

\* process_alerts: one pass of its loop, save_alert_to_database(alert).  The
\* insert commits the row, or raises: the exception leaves process_alerts and
\* the loop, and main exits.
CycleSaveWith(p, db_ok) ==
    /\ ppc[p] = "persist"
    /\ IF db_ok
       THEN /\ db' = Append(db, SavedRow(Head(todo[p]), p))
            /\ todo' = [todo EXCEPT ![p] = Tail(@)]
            /\ ppc' = [ppc EXCEPT ![p] = IF Len(todo[p]) = 1 THEN "report" ELSE "persist"]
            /\ UNCHANGED left_at
       ELSE /\ Fatal(p, "persist")
            /\ UNCHANGED <<db, todo>>
    /\ UNCHANGED <<run, cycle_alerts, report_file, outbox, storeVars, gateVars, restVars>>

CycleSave(p) == \E db_ok \in BOOLEAN : CycleSaveWith(p, db_ok)

\* The end of process_alerts: save_report_to_file appends the alerts of the
\* cycle to the daily report file, and process_alerts returns to main; or
\* os.makedirs or open raises, and main exits with the rows saved and
\* nothing reported.
CycleReportFileWith(p, file_ok) ==
    /\ ppc[p] = "report"
    /\ IF file_ok
       THEN /\ report_file' = report_file \cup Shown(p)
            /\ ppc' = [ppc EXCEPT ![p] = "notify"]
            /\ UNCHANGED left_at
       ELSE /\ Fatal(p, "report")
            /\ UNCHANGED report_file
    /\ UNCHANGED <<db, todo, run, cycle_alerts, outbox, storeVars, gateVars, restVars>>

CycleReportFile(p) == \E file_ok \in BOOLEAN : CycleReportFileWith(p, file_ok)

\* create_alert_report and send_alerts up to its POST: with Telegram enabled
\* the message with the alerts is handed to Telegram, and requests.post
\* waits for the answer.
CycleNotify(p) ==
    /\ ppc[p] = "notify"
    /\ outbox' = IF telegram_enabled THEN outbox \cup Shown(p) ELSE outbox
    /\ ppc' = [ppc EXCEPT ![p] = "posted"]
    /\ UNCHANGED <<db, todo, run, cycle_alerts, left_at, report_file>>
    /\ UNCHANGED <<storeVars, gateVars, restVars>>

\* send_alerts returns, whatever the answer was; then
\* should_generate_report.  main's alerts stays bound until the next
\* evaluation.
CycleNotified(p) ==
    /\ ppc[p] = "posted"
    /\ \E on_the_hour \in BOOLEAN :
        /\ on_the_hour => PeriodicTotal < MaxPeriodic
        /\ ppc' = [ppc EXCEPT ![p] = IF on_the_hour THEN "periodic" ELSE "idle"]
    /\ UNCHANGED <<db, todo, run, cycle_alerts, left_at, report_file, outbox>>
    /\ UNCHANGED <<storeVars, gateVars, restVars>>

\* On the hour: create_periodic_report(features) and save_report_to_file,
\* which appends the periodic report to the daily report file, or raises.
CyclePeriodicReportWith(p, file_ok) ==
    /\ ppc[p] = "periodic"
    /\ IF file_ok
       THEN /\ report_file' = report_file \cup {PeriodicReport(p)}
            /\ ppc' = [ppc EXCEPT ![p] = "periodic_send"]
            /\ UNCHANGED left_at
       ELSE /\ Fatal(p, "periodic")
            /\ UNCHANGED report_file
    /\ UNCHANGED <<db, todo, run, cycle_alerts, outbox, storeVars, gateVars, restVars>>

CyclePeriodicReport(p) == \E file_ok \in BOOLEAN : CyclePeriodicReportWith(p, file_ok)

\* send_report up to its POST.  The text create_periodic_report returned is
\* empty or blank, and send_report returns without sending; or it is handed
\* to Telegram when Telegram is enabled, and requests.post waits for the
\* answer.
CyclePeriodicSendWith(p, blank) ==
    /\ ppc[p] = "periodic_send"
    /\ outbox' = IF telegram_enabled /\ ~blank
                 THEN outbox \cup {PeriodicReport(p)} ELSE outbox
    /\ ppc' = [ppc EXCEPT ![p] = "periodic_posted"]
    /\ UNCHANGED <<db, todo, run, cycle_alerts, left_at, report_file>>
    /\ UNCHANGED <<storeVars, gateVars, restVars>>

CyclePeriodicSend(p) == \E blank \in BOOLEAN : CyclePeriodicSendWith(p, blank)

\* send_report returns; the cycle is over.
CyclePeriodicSent(p) ==
    /\ ppc[p] = "periodic_posted"
    /\ ppc' = [ppc EXCEPT ![p] = "idle"]
    /\ UNCHANGED <<db, todo, run, cycle_alerts, left_at, report_file, outbox>>
    /\ UNCHANGED <<storeVars, gateVars, restVars>>

\* KeyboardInterrupt, wherever main stands in its loop: the loop is left
\* there.  Between two cycles main stands in time.sleep, or has begun the
\* next cycle and stands in extract_all, process or evaluate.  Inside
\* requests.post the message has been handed over already.
CycleInterrupt(p) ==
    /\ ppc[p] \in InCycle \cup {"idle"}
    /\ \E begun \in BOOLEAN :
        /\ begun => (ppc[p] = "idle" /\ RunTotal(Processes) < MaxCycles)
        /\ run' = [run EXCEPT ![p] = IF begun THEN @ + 1 ELSE @]
        /\ left_at' = [left_at EXCEPT ![p] = IF begun THEN "evaluate" ELSE ppc[p]]
    /\ ppc' = [ppc EXCEPT ![p] = "stopped"]
    /\ UNCHANGED <<db, todo, cycle_alerts, report_file, outbox>>
    /\ UNCHANGED <<storeVars, gateVars, restVars>>

\* ------------------------------------- main's start, feature extraction
\* A SocialMediaPost, as far as feature extraction goes: its id, and whether
\* its fields are such that extract_features returns (content and timestamp
\* set) or raises (content or timestamp None).
Post(id, well_formed) == [id |-> id, well_formed |-> well_formed]

\* What extract_all may return: up to MaxPosts posts, ids in order.
RawChoices ==
    UNION {{[k \in 1..n |-> Post(k, w[k])] : w \in [1..n -> BOOLEAN]} : n \in 0..MaxPosts}

\* extract_features: the PostFeatures of a post.
extract_features(post) == [post_id |-> post.id]

\* Mutant: the first post that raises ends the batch.
RECURSIVE process_AbortOnError(_)
process_AbortOnError(posts) ==
    IF posts = <<>> THEN <<>>
    ELSE IF Head(posts).well_formed
         THEN <<extract_features(Head(posts))>> \o process_AbortOnError(Tail(posts))
         ELSE <<>>

\* FeatureExtractor.process: the features of each post in turn; a post whose
\* extraction raises is logged and left out.
RECURSIVE process(_)
process(posts) ==
    IF posts = <<>> THEN <<>>
    ELSE (IF Head(posts).well_formed THEN <<extract_features(Head(posts))>> ELSE <<>>)
         \o process(Tail(posts))

\* main.py as the interpreter starts on it: at its import statements.
MainStart ==
    /\ mpc = "import"
    /\ fpc = "idle"
    /\ raw_data = <<>>
    /\ main_features = <<>>

\* The imports of main.py.  `from report import ReportGenerator` raises
\* ImportError: report.py defines functions only, no ReportGenerator.  The
\* interpreter exits before parse_args, setup_database and the loop.
MainImport ==
    /\ mpc = "import"
    /\ mpc' = "import_error"
    /\ UNCHANGED <<fpc, raw_data, main_features>>
    /\ UNCHANGED <<storeVars, gateVars, cycleVars, evalVars, persistVars, reportVars>>

MainNext == MainImport

\* features = feature_extractor.process(raw_data) on a batch of posts.
Process ==
    /\ fpc = "idle"
    /\ \E raw \in RawChoices :
        /\ raw_data' = raw
        /\ main_features' = process(raw)
    /\ fpc' = "done"
    /\ UNCHANGED mpc
    /\ UNCHANGED <<storeVars, gateVars, cycleVars, evalVars, persistVars, reportVars>>

\* The caller has taken the features.
ProcessReturn ==
    /\ fpc = "done"
    /\ fpc' = "idle"
    /\ raw_data' = <<>>
    /\ main_features' = <<>>
    /\ UNCHANGED mpc
    /\ UNCHANGED <<storeVars, gateVars, cycleVars, evalVars, persistVars, reportVars>>

ProcessNext ==
    \/ Process
    \/ ProcessReturn

\* ------------------------------------------------- persisting one alert
\* A text is a sequence of pieces; the piece ";" stands for an occurrence of
\* the two characters "; " in it.
Separator == ";"
ActionLists ==
    {<<>>, <<<<"monitor">>>>, <<<<"monitor">>, <<"review">>>>,
     <<<<"call", Separator, "log">>>>}

AlertKeys == {"type", "severity", "summary", "actions", "timestamp"}
\* Alert dicts with every key, and the same with keys missing.
FullAlerts ==
    [type : {"NEGATIVE_SENTIMENT"}, severity : {"MEDIUM"}, summary : {<<"summary">>},
     actions : ActionLists, timestamp : {0}]
AlertChoices == {[k \in D |-> a[k]] : a \in FullAlerts, D \in SUBSET AlertKeys}

\* '; '.join(actions)
RECURSIVE Join(_)
Join(actions) ==
    IF actions = <<>> THEN <<>>
    ELSE IF Len(actions) = 1 THEN actions[1]
    ELSE actions[1] \o <<Separator>> \o Join(Tail(actions))

\* save_alert_to_database: the row of the INSERT for an alert at time t.
save_alert_to_database(alert, t) ==
    [alert_type |-> Get(alert, "type", "Unknown"),
     severity |-> Get(alert, "severity", "Unknown"),
     summary |-> Get(alert, "summary", <<"No summary available">>),
     actions |-> Join(Get(alert, "actions", <<>>)),
     timestamp |-> Get(alert, "timestamp", t),
     report_date |-> DateOf(t),
     created_at |-> t - utc_offset]

\* text.split('; ')
RECURSIVE Split(_)
Split(text) ==
    IF \A k \in DOMAIN text : text[k] # Separator THEN <<text>>
    ELSE LET k == CHOOSE i \in DOMAIN text :
                    text[i] = Separator /\ \A j \in 1..(i - 1) : text[j] # Separator
         IN <<SubSeq(text, 1, k - 1)>> \o Split(SubSeq(text, k + 1, Len(text)))

\* The read of a stored row back into an alert: each column as stored, the
\* actions column taken apart at the separator (an empty column is no action).
query(row) ==
    [type |-> row.alert_type, severity |-> row.severity, summary |-> row.summary,
     actions |-> IF row.actions = <<>> THEN <<>> ELSE Split(row.actions),
     timestamp |-> row.timestamp]

NoDict == [k \in {} |-> 0]

PersistStart ==
    /\ written = NoDict
    /\ stored = NoDict
    /\ readback = NoDict
    /\ rpc = "idle"

\* process_alerts, before it saves an alert: an alert without a summary or
\* without actions is given them, in the caller's dict.
with_summary_and_actions(alert) ==
    [k \in DOMAIN alert \cup {"summary", "actions"} |->
        IF k \in DOMAIN alert THEN alert[k]
        ELSE IF k = "summary"
             THEN <<"Alert: ", Get(alert, "type", "Unknown"), " detected">>
             ELSE <<<<"Monitor situation">>, <<"Review sentiment patterns">>>>]

\* One pass of the loop of process_alerts: the alert is completed and saved.
ProcessAlert ==
    /\ rpc = "idle"
    /\ \E alert \in AlertChoices :
        /\ written' = with_summary_and_actions(alert)
        /\ stored' = save_alert_to_database(with_summary_and_actions(alert), now)
    /\ rpc' = "stored"
    /\ UNCHANGED readback
    /\ UNCHANGED <<storeVars, gateVars, cycleVars, evalVars, mainVars, reportVars>>

\* save_alert_to_database(alert, db_path), called with the alert as it is.
Persist ==
    /\ rpc = "idle"
    /\ \E alert \in AlertChoices :
        /\ written' = alert
        /\ stored' = save_alert_to_database(alert, now)
    /\ rpc' = "stored"
    /\ UNCHANGED readback
    /\ UNCHANGED <<storeVars, gateVars, cycleVars, evalVars, mainVars, reportVars>>

\* The stored row is read back.
Query ==
    /\ rpc = "stored"
    /\ readback' = query(stored)
    /\ rpc' = "read"
    /\ UNCHANGED <<written, stored>>
    /\ UNCHANGED <<storeVars, gateVars, cycleVars, evalVars, mainVars, reportVars>>

\* The row has been read; the next alert may be saved.
PersistReturn ==
    /\ rpc = "read"
    /\ rpc' = "idle"
    /\ written' = NoDict
    /\ stored' = NoDict
    /\ readback' = NoDict
    /\ UNCHANGED <<storeVars, gateVars, cycleVars, evalVars, mainVars, reportVars>>

PersistNext ==
    \/ Tick
    \/ Persist
    \/ ProcessAlert
    \/ Query
    \/ PersistReturn

\* --------------------------------------------------- statistics and trends
\* --stats-days: the default of a week, and today only.
DaysChoices == {0, 7}

\* Mutant: the statistics count every row of the table.
CreatedSince_All(cutoff_time) == DOMAIN alerts

\* WHERE created_at >= :cutoff_time
CreatedSince(cutoff_time) ==
    {i \in DOMAIN alerts : alerts[i].created_at >= cutoff_time}

\* COUNT(CASE WHEN column = value THEN 1 END) over the selected rows.
CountWhere(rows, column, value) ==
    Cardinality({i \in rows : alerts[i][column] = value})

\* delivered / total * 100 as a fraction num / den, and 0 for no rows.
delivery_rate(delivered, total) ==
    IF total > 0 THEN [num |-> delivered * 100, den |-> total]
    ELSE [num |-> 0, den |-> 1]

\* get_alert_statistics(days): the counts over the rows created since the
\* cutoff, or {} when the store raised or is not available.
get_alert_statistics(days, db_ok) ==
    IF ~db_ok THEN NoDict
    ELSE LET rows == CreatedSince(now - days * HoursPerDay)
             total == Cardinality(rows)
             delivered == CountWhere(rows, "delivery_status", "delivered")
         IN [period_days |-> days,
             total_alerts |-> total,
             delivered_alerts |-> delivered,
             pending_alerts |-> CountWhere(rows, "delivery_status", "pending"),
             urgency_breakdown |->
                 [high |-> CountWhere(rows, "urgency", "high"),
                  medium |-> CountWhere(rows, "urgency", "medium"),
                  low |-> CountWhere(rows, "urgency", "low")],
             delivery_rate |-> delivery_rate(delivered, total)]

\* service.get_alert_statistics(days)
Statistics ==
    /\ spc = "idle"
    /\ \E days \in DaysChoices, db_ok \in BOOLEAN :
        statistics' = get_alert_statistics(days, db_ok)
    /\ spc' = "done"
    /\ UNCHANGED <<results, trends, tpc>>
    /\ UNCHANGED <<storeVars, gateVars, cycleVars, evalVars, mainVars, persistVars>>

\* The caller has printed the statistics.
StatisticsReturn ==
    /\ spc = "done"
    /\ statistics' = NoDict
    /\ spc' = "idle"
    /\ UNCHANGED <<results, trends, tpc>>
    /\ UNCHANGED <<storeVars, gateVars, cycleVars, evalVars, mainVars, persistVars>>

\* An analysis result, as far as the trend goes: its timestamp (ISO texts of
\* one format, whose text order is their order in time, counted in hours) and
\* its overall_risk_level; either key may be missing.
RiskLevels == {"low", "high", "critical"}
EntryChoices ==
    [timestamp : 0..1, overall_risk_level : RiskLevels]
        \cup [overall_risk_level : RiskLevels]
        \cup [timestamp : 0..1]
\* The lists of n analysis results.
ResultChoices(n) == [1..n -> EntryChoices]

\* sorted(..., key=timestamp) is stable: an entry goes behind the entries
\* already placed whose timestamp is not later than its own.
RECURSIVE Insert(_, _)
Insert(r, placed) ==
    IF placed = <<>> THEN <<r>>
    ELSE IF Head(placed).timestamp <= r.timestamp
         THEN <<Head(placed)>> \o Insert(r, Tail(placed))
         ELSE <<r>> \o placed

RECURSIVE sorted(_)
sorted(entries) ==
    IF entries = <<>> THEN <<>>
    ELSE Insert(entries[Len(entries)], sorted(SubSeq(entries, 1, Len(entries) - 1)))

\* sum(1 for r in half if r.get('overall_risk_level') in ['high', 'critical'])
CriticalCount(half) ==
    Cardinality({k \in DOMAIN half :
        Get(half[k], "overall_risk_level", "None") \in {"high", "critical"}})

\* The result of _analyze_trends from the entries that have a timestamp, in
\* the order they are split in.
TrendOf(time_sorted) ==
    IF Len(time_sorted) < 2 THEN [trend |-> "no_time_data", direction |-> "unknown"]
    ELSE LET mid_point == Len(time_sorted) \div 2
             first_critical == CriticalCount(SubSeq(time_sorted, 1, mid_point))
             second_critical ==
                 CriticalCount(SubSeq(time_sorted, mid_point + 1, Len(time_sorted)))
         IN [trend |-> IF second_critical > first_critical THEN "worsening"
                       ELSE IF second_critical < first_critical THEN "improving"
                       ELSE "stable",
             direction |-> IF second_critical > first_critical THEN "up"
                           ELSE IF second_critical < first_critical THEN "down"
                           ELSE "stable",
             first_half_critical |-> first_critical,
             second_half_critical |-> second_critical,
             change_magnitude |-> IF second_critical >= first_critical
                                  THEN second_critical - first_critical
                                  ELSE first_critical - second_critical]

\* [r for r in results if 'timestamp' in r]
Timed(entries) ==
    LET HasTime(r) == "timestamp" \in DOMAIN r IN SelectSeq(entries, HasTime)

\* Mutant: the entries are split in the order they were given in.
analyze_trends_InputOrder(entries, period) ==
    IF Len(entries) < 2 THEN [trend |-> "insufficient_data", direction |-> "unknown"]
    ELSE TrendOf(Timed(entries))

\* _analyze_trends(results, period)
analyze_trends(entries, period) ==
    IF Len(entries) < 2 THEN [trend |-> "insufficient_data", direction |-> "unknown"]
    ELSE TrendOf(sorted(Timed(entries)))

\* trends = _analyze_trends(filtered_results, time_period)
Trend ==
    /\ tpc = "idle"
    /\ \E n \in 0..MaxEntries : \E entries \in ResultChoices(n) :
        /\ results' = entries
        /\ trends' = analyze_trends(entries, "24h")
    /\ tpc' = "done"
    /\ UNCHANGED <<statistics, spc>>
    /\ UNCHANGED <<storeVars, gateVars, cycleVars, evalVars, mainVars, persistVars>>

\* The caller has taken the trends.
TrendReturn ==
    /\ tpc = "done"
    /\ results' = <<>>
    /\ trends' = NoDict
    /\ tpc' = "idle"
    /\ UNCHANGED <<statistics, spc>>
    /\ UNCHANGED <<storeVars, gateVars, cycleVars, evalVars, mainVars, persistVars>>

ReportStart ==
    /\ statistics = NoDict
    /\ spc = "idle"
    /\ results = <<>>
    /\ trends = NoDict
    /\ tpc = "idle"

TrendNext ==
    \/ Trend
    \/ TrendReturn

\* ------------------------------------------------------- the specifications
\* The parts a specification does not exercise, as constructed.
RestStart == EvalStart(DefaultRules) /\ MainStart /\ PersistStart /\ ReportStart

Init == StoreInit /\ GateStart(DefaultPolicy) /\ CycleStart /\ RestStart

GateInit ==
    /\ StoreStart(TRUE, 24)
    /\ CycleStart
    /\ \E p \in PolicyChoices : GateStart(p)
    /\ RestStart

\* MoodRules built from a config with negative policy values, or from one
\* whose warning threshold lies below its critical threshold.
ConfigInit ==
    /\ StoreStart(TRUE, 24)
    /\ CycleStart
    /\ \E th \in ThresholdChoices :
          \E p \in IF th = DefaultThresholds THEN {NegativePolicy} ELSE {DefaultPolicy} :
              GateStartWith(p, th)
    /\ RestStart

\* main with and without Telegram.
VisibleInit ==
    /\ \E telegram \in BOOLEAN : StoreStart(telegram, 24)
    /\ GateStart(DefaultPolicy)
    /\ CycleStart
    /\ RestStart

ScoreInit ==
    /\ StoreStart(TRUE, 24)
    /\ CycleStart
    /\ \E th \in ThresholdChoices : GateStartWith(DefaultPolicy, th)
    /\ RestStart

CycleInit == StoreStart(TRUE, 24) /\ GateStart(DefaultPolicy) /\ CycleStart /\ RestStart

EvalInit ==
    /\ StoreStart(TRUE, 24)
    /\ GateStart(DefaultPolicy)
    /\ CycleStart
    /\ \E r \in RuleChoices : EvalStart(r)
    /\ MainStart
    /\ PersistStart
    /\ ReportStart

MainInit ==
    /\ StoreStart(TRUE, 24)
    /\ GateStart(DefaultPolicy)
    /\ CycleStart
    /\ EvalStart(DefaultRules)
    /\ MainStart
    /\ PersistStart
    /\ ReportStart

\* Two processes run processing cycles over one table.  A cycle on the
\* features main has ends at evaluate; the cycles that go on to persist are
\* those of the same statements run on a dict of features.
CycleNext ==
    \/ Tick
    \/ \E p \in Processes : CycleEvaluate(p)
    \/ \E p \in Processes : CycleAlerts(p)
    \/ \E p \in Processes : CycleSave(p)
    \/ \E p \in Processes : CycleReportFile(p)
    \/ \E p \in Processes : CycleNotify(p)
    \/ \E p \in Processes : CycleNotified(p)
    \/ \E p \in Processes : CyclePeriodicReport(p)
    \/ \E p \in Processes : CyclePeriodicSend(p)
    \/ \E p \in Processes : CyclePeriodicSent(p)

\* One process runs its processing cycles one after the other.
SeqCycleNext ==
    \/ Tick
    \/ CycleEvaluate("m1")
    \/ CycleAlerts("m1")
    \/ CycleSave("m1")
    \/ CycleReportFile("m1")
    \/ CycleNotify("m1")
    \/ CycleNotified("m1")
    \/ CyclePeriodicReport("m1")
    \/ CyclePeriodicSend("m1")
    \/ CyclePeriodicSent("m1")

\* One process runs its cycles over a store that may raise, and may be
\* interrupted.
VisibleNext ==
    \/ Tick
    \/ CycleEvaluate("m1")
    \/ CycleAlerts("m1")
    \/ CycleSave("m1")
    \/ CycleReportFile("m1")
    \/ CycleNotify("m1")
    \/ CycleNotified("m1")
    \/ CyclePeriodicReport("m1")
    \/ CyclePeriodicSend("m1")
    \/ CyclePeriodicSent("m1")
    \/ CycleInterrupt("m1")

\* The store's operations and one delivery coordinator.
Next ==
    \/ Tick
    \/ InsertAlert({"high"})
    \/ MarkDelivered
    \/ CoordList("c1")
    \/ CoordSend("c1")
    \/ CoordMark("c1")

\* One delivery coordinator over a store no one else marks.
CoordNext ==
    \/ Tick
    \/ InsertAlert({"high"})
    \/ CoordList("c1")
    \/ CoordSend("c1")
    \/ CoordMark("c1")

\* The statistics are read while a coordinator delivers.
StatsNext ==
    \/ CoordNext
    \/ Statistics
    \/ StatisticsReturn

\* One delivery coordinator over alerts of every urgency.
OrderNext ==
    \/ Tick
    \/ InsertAlert(Urgencies)
    \/ CoordList("c1")
    \/ CoordSend("c1")
    \/ CoordMark("c1")

\* Two delivery coordinators over one store.
RaceNext ==
    \/ Tick
    \/ InsertAlert({"high"})
    \/ \E c \in Coordinators : CoordList(c)
    \/ \E c \in Coordinators : CoordSend(c)
    \/ \E c \in Coordinators : CoordMark(c)

vars == <<storeVars, gateVars, cycleVars, restVars>>

Spec == Init /\ [][Next]_vars

RaceSpec == Init /\ [][RaceNext]_vars

CoordSpec == Init /\ [][CoordNext]_vars

OrderSpec == Init /\ [][OrderNext]_vars

GateSpec == GateInit /\ [][GateNext]_vars

CalmSpec == GateInit /\ [][CalmNext]_vars

ConfigSpec == ConfigInit /\ [][GateNext]_vars

StatsSpec == Init /\ [][StatsNext]_vars

TrendSpec == CycleInit /\ [][TrendNext]_vars

VisibleSpec == VisibleInit /\ [][VisibleNext]_vars

ScoreSpec == ScoreInit /\ [][ScoreNext]_vars

CycleSpec == CycleInit /\ [][CycleNext]_vars

SeqCycleSpec == CycleInit /\ [][SeqCycleNext]_vars

EvalSpec == EvalInit /\ [][EvalNext]_vars

MainSpec == MainInit /\ [][MainNext]_vars

ProcessSpec == MainInit /\ [][ProcessNext]_vars

PersistSpec == CycleInit /\ [][PersistNext]_vars

\* The coordinator keeps being invoked, the store keeps answering, and a
\* channel that is tried again and again accepts a message in the end.
\* The clock stops at MaxTime; a row that has left the look-back window by
\* then stays outside it however far the real clock runs, since the cutoff
\* now - since_hours only grows.
Fairness ==
    /\ WF_vars(Tick)
    /\ WF_vars(CoordListWith("c1", TRUE))
    /\ SF_vars(CoordSendWith("c1", "200"))
    /\ SF_vars(CoordMarkWith("c1", TRUE))

LiveSpec == Init /\ [][Next]_vars /\ Fairness

\* ------------------------------------------------------------------ claims

\* C1: an alert's delivery status changes only from pending to delivered or
\* from pending to failed, and an alert that is not pending is left untouched
\* by every store and coordinator operation (marking as delivered included).
C1_OnlyPendingRowsChange ==
    [][\A i \in DOMAIN alerts :
          /\ alerts'[i].delivery_status # alerts[i].delivery_status
                => /\ alerts[i].delivery_status = "pending"
                   /\ alerts'[i].delivery_status \in {"delivered", "failed"}
          /\ alerts[i].delivery_status # "pending" => alerts'[i] = alerts[i]]_vars

\* C2: an invocation of send_alerts_from_db moves an alert to delivered only
\* if in that invocation a channel confirmed a message; when nothing was
\* handed to a channel, or the channel did not confirm, nothing is marked.
C2_DeliveredOnlyWhenConfirmed ==
    [][\A c \in Coordinators :
          (cpc[c] = "sent" /\ cpc'[c] = "idle" /\ MovedBy(alerts') # {})
              => inv[c].confirmed]_vars

\* The alerts of subject u dated on day d, of any level, each copy counted.
AlertsOnDay(u, d) ==
    BagCardinality(
        [a \in {x \in DOMAIN history : x.user_id = u /\ DateOf(x.timestamp) = d}
            |-> history[a]])

\* The non-critical alerts of subject u dated on day d, each copy counted.
NonCriticalOnDay(u, d) ==
    BagCardinality(
        [a \in {x \in DOMAIN history :
                    /\ x.user_id = u
                    /\ DateOf(x.timestamp) = d
                    /\ x.alert_level # "CRITICAL"}
            |-> history[a]])

\* The days the candidates are dated on.
GateDays == {DateOf(t) : t \in GateTimes}

\* The history holds an alert of the candidate's subject and level that is
\* less than cooldown_hours older than the candidate.
CandidateInCooldown ==
    \E a \in DOMAIN history :
        /\ a.user_id = evaluation.user_id
        /\ a.alert_level = evaluation.alert_level
        /\ evaluation.timestamp - a.timestamp < policy.alert_cooldown

CandidateToday == AlertsOnDay(evaluation.user_id, DateOf(evaluation.timestamp))

\* C3: a candidate of level CRITICAL is admitted whatever the history holds.
C3_CriticalAlwaysAdmitted ==
    (gpc = "gated" /\ evaluation.alert_level = "CRITICAL") => decision

\* A critical candidate admitted although a critical alert of its subject lies
\* inside the cooldown window and the subject is at its daily limit.
C3_Witness ==
    /\ gpc = "gated" /\ evaluation.alert_level = "CRITICAL" /\ decision
    /\ policy.alert_cooldown > 0
    /\ \E a \in DOMAIN history :
          /\ a.user_id = evaluation.user_id /\ a.alert_level = "CRITICAL"
          /\ evaluation.timestamp - a.timestamp \in 0..(policy.alert_cooldown - 1)
    /\ CandidateToday >= policy.max_alerts_per_day

\* Rows i and j of main's table are non-critical alerts of one type and
\* severity created less than cooldown_hours apart.
SameWindow(i, j) ==
    /\ db[i].alert_type = db[j].alert_type
    /\ db[i].severity = db[j].severity
    /\ db[i].severity # "CRITICAL"
    /\ db[j].created_at - db[i].created_at < policy.alert_cooldown
    /\ db[i].created_at - db[j].created_at < policy.alert_cooldown

\* C4: after any sequence of processing cycles the persisted alerts never
\* hold two non-critical alerts of one (subject,) type and severity created
\* less than cooldown_hours apart.
C4_OnePersistedPerCooldownWindow ==
    \A i, j \in DOMAIN db : i < j => ~SameWindow(i, j)

\* C5: a non-critical candidate that is not in cooldown is denied when the
\* history holds max_alerts_per_day or more alerts of its subject dated on its
\* day, and admitted when it holds fewer.
C5_DailyLimitDecides ==
    (/\ gpc = "gated"
     /\ evaluation.action_required
     /\ evaluation.alert_level # "CRITICAL"
     /\ ~CandidateInCooldown)
    => (decision <=> CandidateToday < policy.max_alerts_per_day)

\* With max_alerts_per_day = 5 and five alerts today, the sixth candidate, not
\* critical and not in cooldown, is denied.
C5_Witness ==
    /\ gpc = "gated"
    /\ evaluation.action_required /\ evaluation.alert_level # "CRITICAL"
    /\ ~CandidateInCooldown
    /\ policy.max_alerts_per_day = 5
    /\ CandidateToday = 5
    /\ ~decision

\* C6: over gated admissions that are all added to the history, the
\* non-critical alerts admitted for one subject on one day never exceed
\* max_alerts_per_day.
C6_NonCriticalWithinDailyLimit ==
    \A u \in Users, d \in GateDays :
        NonCriticalOnDay(u, d) <= policy.max_alerts_per_day

\* A subject has max_alerts_per_day non-critical alerts on the day and the
\* gate denies one more that is not in cooldown.
C6_Witness ==
    /\ gpc = "gated" /\ ~decision
    /\ evaluation.action_required /\ evaluation.alert_level # "CRITICAL"
    /\ ~CandidateInCooldown
    /\ NonCriticalOnDay(evaluation.user_id, DateOf(evaluation.timestamp))
          = policy.max_alerts_per_day

\* C7: marking alert ids as delivered reports exactly the number of rows it
\* moved from pending to delivered (0 on a repeated call with the same ids).
C7_MarkReportsRowsMoved ==
    lastMark.called => BoolAsInt(lastMark.returned) = lastMark.moved

\* C8: when two coordinators ran send_alerts_from_db concurrently, the
\* delivered counts they report add up to the number of alerts that changed
\* from pending to delivered.
C8_RaceAccountsOnce ==
    \A c, d \in Coordinators :
        (/\ c # d
         /\ cpc[c] = "idle" /\ cpc[d] = "idle"
         /\ d \in inv[c].overlap
         /\ result[c].success /\ result[d].success)
        => result[c].alerts_sent + result[d].alerts_sent
             = inv[c].moved + inv[d].moved

\* Rows i and j were written by two cycles that ran at the same time.
WrittenConcurrently(i, j) == db[i].by \in db[j].during \/ db[j].by \in db[i].during

\* The non-critical rows created on day d.
NonCriticalRowsOnDay(d) ==
    {i \in DOMAIN db : db[i].severity # "CRITICAL" /\ DateOf(db[i].created_at) = d}

\* C9: two processing cycles that run concurrently never both persist a
\* non-critical alert of one type and severity inside one cooldown window, nor
\* together push the subject past max_alerts_per_day.
C9_ConcurrentCyclesAdmitOnce ==
    /\ \A i, j \in DOMAIN db :
          (i < j /\ WrittenConcurrently(i, j)) => ~SameWindow(i, j)
    /\ \A i, j \in DOMAIN db :
          (i < j /\ WrittenConcurrently(i, j))
            => Cardinality(NonCriticalRowsOnDay(DateOf(db[j].created_at)))
                 <= policy.max_alerts_per_day

\* C10: every pending alert eventually becomes delivered or failed, provided
\* the coordinator keeps being invoked and the channel eventually accepts.
C10_PendingEventuallyLeaves ==
    \A i \in 1..MaxAlerts :
        (i \in DOMAIN alerts /\ alerts[i].delivery_status = "pending")
            ~> (i \in DOMAIN alerts /\ alerts[i].delivery_status # "pending")

\* The ids a listing taken now returns.
ListedNow == UNION {SeqToSet(l) : l \in get_undelivered_alerts(since_hours, TRUE)}

\* C11: when the channel failed to deliver during a coordinator invocation,
\* every alert of that batch is still pending afterwards and the listing of
\* the next invocation, whenever it is taken, returns each of them again.
C11_FailedBatchListedAgain ==
    \A c \in Coordinators :
        cpc[c] = "idle"
            => \A i \in inv[c].failed :
                  /\ alerts[i].delivery_status = "pending"
                  /\ i \in ListedNow

\* C12: when the channel rejected the message with a permanent error, the
\* coordinator has moved the alerts of the batch from pending to failed by
\* the time the invocation returns, so that no later invocation tries them.
C12_RejectedBatchFailed ==
    \A c \in Coordinators :
        cpc[c] = "idle"
            => \A i \in inv[c].rejected : alerts[i].delivery_status = "failed"

\* C14: a listing returns only pending alerts: once an invocation has
\* delivered an alert it is delivered, and no later listing returns it, so a
\* following invocation does not send it again.
C14_ListingOnlyPending ==
    /\ cpc["c1"] # "idle"
          => \A k \in DOMAIN batch["c1"] :
                alerts[batch["c1"][k]].delivery_status = "pending"
    /\ (cpc["c1"] = "idle" /\ result["c1"].success /\ result["c1"].alerts_sent > 0)
          => inv["c1"].moved = result["c1"].alerts_sent

\* An invocation has delivered an alert, and a following invocation has
\* listed a batch that leaves the delivered alert out.
C14_Witness ==
    /\ cpc["c1"] = "listed"
    /\ result["c1"].success /\ result["c1"].alerts_sent > 0
    /\ \E i \in DOMAIN alerts :
          /\ alerts[i].delivery_status = "delivered"
          /\ alerts[i].created_at >= now - since_hours
          /\ i \notin SeqToSet(batch["c1"])

\* The rank the claim gives a severity: CRITICAL > HIGH > MEDIUM > LOW.
SeverityRank(u) ==
    CASE u = "critical" -> 4 [] u = "high" -> 3 [] u = "medium" -> 2 [] u = "low" -> 1

\* C13: a listing returns the pending alerts by severity rank, highest first,
\* and by created_at ascending among alerts of equal severity.
C13_ListedBySeverityRank ==
    \A c \in Coordinators :
        cpc[c] = "listed"
            => \A p, q \in DOMAIN batch[c] :
                  p < q =>
                    LET a == alerts[batch[c][p]]
                        b == alerts[batch[c][q]]
                    IN \/ SeverityRank(a.urgency) > SeverityRank(b.urgency)
                       \/ /\ a.urgency = b.urgency
                          /\ a.created_at <= b.created_at

\* The candidates of a type and severity among those returned.
Found(type, severity) ==
    {k \in DOMAIN candidates :
        candidates[k].type = type /\ candidates[k].severity = severity}

\* C15: for a snapshot whose crisis_keywords is non-empty evaluate returns
\* exactly one alert of severity CRITICAL, of type CRISIS_KEYWORDS, whatever
\* the other values and the thresholds, and none when it is empty.
C15_OneCriticalPerCrisis ==
    epc = "done" =>
        LET critical == {k \in DOMAIN candidates : candidates[k].severity = "CRITICAL"}
        IN IF Get(snapshot, "crisis_keywords", <<>>) # <<>>
           THEN /\ Cardinality(critical) = 1
                /\ critical = Found("CRISIS_KEYWORDS", "CRITICAL")
           ELSE critical = {}

\* Crisis keywords together with the three other rules firing, under
\* thresholds that are not the defaults.
C15_Witness ==
    /\ epc = "done"
    /\ rules # DefaultRules
    /\ Get(snapshot, "crisis_keywords", <<>>) # <<>>
    /\ Len(candidates) = 4
    /\ Cardinality(Found("CRISIS_KEYWORDS", "CRITICAL")) = 1

\* C16: evaluate returns exactly one candidate for each rule whose condition
\* holds and none for a rule whose condition fails, each rule on its own:
\* NEGATIVE_SENTIMENT iff avg_sentiment < sentiment_threshold (HIGH iff
\* avg_sentiment < -0.8, else MEDIUM), LOW_ENGAGEMENT/LOW iff engagement_score
\* < engagement_threshold, ACTIVITY_SPIKE/MEDIUM iff post_volume >
\* avg_post_volume * volume_spike_threshold, CRISIS_KEYWORDS/CRITICAL iff
\* crisis_keywords is non-empty; a value equal to its threshold does not fire.
C16_OneCandidatePerRule ==
    epc = "done" =>
        LET s == Get(snapshot, "avg_sentiment", 0)
            e == Get(snapshot, "engagement_score", 0)
            v == Get(snapshot, "post_volume", 0)
            a == Get(snapshot, "avg_post_volume", 1)
            w == Get(snapshot, "crisis_keywords", <<>>)
            One(c) == IF c THEN 1 ELSE 0
        IN /\ Cardinality(Found("NEGATIVE_SENTIMENT", "HIGH"))
                = One(s < rules.sentiment_threshold /\ s < high_sentiment)
           /\ Cardinality(Found("NEGATIVE_SENTIMENT", "MEDIUM"))
                = One(s < rules.sentiment_threshold /\ ~(s < high_sentiment))
           /\ Cardinality(Found("LOW_ENGAGEMENT", "LOW"))
                = One(e < rules.engagement_threshold)
           /\ Cardinality(Found("ACTIVITY_SPIKE", "MEDIUM"))
                = One(v > a * rules.volume_spike_threshold)
           /\ Cardinality(Found("CRISIS_KEYWORDS", "CRITICAL")) = One(w # <<>>)
           /\ Len(candidates)
                = One(s < rules.sentiment_threshold) + One(e < rules.engagement_threshold)
                  + One(v > a * rules.volume_spike_threshold) + One(w # <<>>)

\* Every value sits exactly at its threshold and nothing fires.
C16_Witness ==
    /\ epc = "done"
    /\ SnapshotKeys \subseteq DOMAIN snapshot
    /\ snapshot.avg_sentiment = rules.sentiment_threshold
    /\ snapshot.engagement_score = rules.engagement_threshold
    /\ snapshot.post_volume = snapshot.avg_post_volume * rules.volume_spike_threshold
    /\ snapshot.crisis_keywords = <<>>
    /\ candidates = <<>>

\* A cycle of p has ended main at its evaluation.
EndedAtEvaluate(p) == ppc[p] = "fatal" /\ left_at[p] = "evaluate"

\* C17: an exception raised by evaluation or by delivery inside a processing
\* cycle never ends main's loop: the step is logged and skipped and the next
\* cycle runs.
C17_LoopSurvivesExceptions == \A p \in Processes : ~EndedAtEvaluate(p)

\* The posts of raw_data whose extraction returns, in input order.
WellFormedIds == {k \in DOMAIN raw_data : raw_data[k].well_formed}

\* C18: process leaves out a post whose extraction raises and returns the
\* features of every other post of the batch, in input order.
C18_ProcessSkipsOnlyFailures ==
    fpc = "done" =>
        /\ {main_features[k].post_id : k \in DOMAIN main_features} = {raw_data[k].id : k \in WellFormedIds}
        /\ Len(main_features) = Cardinality(WellFormedIds)
        /\ \A p, q \in DOMAIN main_features :
              p < q => main_features[p].post_id < main_features[q].post_id

\* A post that raises stands between two that do not, and both are returned.
C18_Witness ==
    /\ fpc = "done"
    /\ Len(raw_data) = 3
    /\ raw_data[1].well_formed /\ ~raw_data[2].well_formed /\ raw_data[3].well_formed
    /\ main_features = <<extract_features(raw_data[1]), extract_features(raw_data[3])>>

\* C19: every alert is inserted with delivery status pending and a creation
\* time set at insertion (an insert that fails leaves no row).
C19_InsertedPending ==
    \A i \in DOMAIN db :
        /\ "delivery_status" \in DOMAIN db[i]
        /\ db[i].delivery_status = "pending"
        /\ db[i].created_at \in 0..now

\* C20: an alert written by the persist operation and read back from the
\* store has every written field (type, severity, summary, recommended
\* actions, timestamp) equal to the value written, also when optional fields
\* are missing.
C20_RoundTrip ==
    rpc = "read" => \A k \in DOMAIN written : readback[k] = written[k]

\* C26: evaluate_mood_score gives a score the band CRITICAL when it is at or
\* below critical_threshold, else WARNING when at or below warning_threshold,
\* else POSITIVE when at or above recovery_threshold, else NEUTRAL; every
\* score has exactly one band, and action_required is true exactly for
\* CRITICAL and WARNING.
C26_OneBandPerScore ==
    gpc = "scored" =>
        LET s == evaluation.mood_score
            level == evaluation.alert_level
            c == thresholds.critical_threshold
            w == thresholds.warning_threshold
            r == thresholds.recovery_threshold
        IN /\ level \in {"CRITICAL", "WARNING", "POSITIVE", "NEUTRAL"}
           /\ level = "CRITICAL" <=> s <= c
           /\ level = "WARNING" <=> (s > c /\ s <= w)
           /\ level = "POSITIVE" <=> (s > c /\ s > w /\ s >= r)
           /\ level = "NEUTRAL" <=> (s > c /\ s > w /\ s < r)
           /\ evaluation.action_required <=> level \in {"CRITICAL", "WARNING"}

\* Under thresholds that are out of order a score at the recovery threshold
\* and above the warning threshold is CRITICAL: the critical test comes first.
C26_Witness ==
    /\ gpc = "scored"
    /\ thresholds.critical_threshold > thresholds.recovery_threshold
    /\ evaluation.mood_score = thresholds.recovery_threshold
    /\ evaluation.mood_score > thresholds.warning_threshold
    /\ evaluation.alert_level = "CRITICAL"
    /\ evaluation.action_required

\* C29: should_send_alert never admits an evaluation whose action_required is
\* false: NEUTRAL and POSITIVE evaluations are denied whatever the history,
\* so only CRITICAL and WARNING evaluations are ever admitted.
C29_NoActionNeverAdmitted ==
    /\ (gpc = "gated" /\ decision)
          => /\ evaluation.action_required
             /\ evaluation.alert_level \in {"CRITICAL", "WARNING"}
    /\ \A a \in DOMAIN history : a.alert_level \in {"CRITICAL", "WARNING"}

\* A POSITIVE evaluation is denied although the history holds nothing of its
\* subject, so that neither the cooldown nor the daily limit stands against it.
C29_Witness ==
    /\ gpc = "gated" /\ ~decision
    /\ evaluation.alert_level = "POSITIVE" /\ ~evaluation.action_required
    /\ history # EmptyBag
    /\ \A a \in DOMAIN history : a.user_id # evaluation.user_id

\* How much older than the candidate each alert of its subject and level is.
SimilarAges ==
    {evaluation.timestamp - a.timestamp :
        a \in {x \in DOMAIN history : /\ x.user_id = evaluation.user_id
                                      /\ x.alert_level = evaluation.alert_level}}

\* C30: an earlier alert of the candidate's subject and level suppresses a
\* non-critical candidate only while it is strictly less than cooldown_hours
\* older: when every such alert is cooldown_hours old or older (with
\* cooldown_hours = 0: stamped at or before the candidate) and the daily limit
\* is not reached, the candidate is admitted.
C30_CooldownEndsAtBoundary ==
    (/\ gpc = "gated"
     /\ evaluation.action_required
     /\ evaluation.alert_level # "CRITICAL"
     /\ CandidateToday < policy.max_alerts_per_day)
    => /\ (\A age \in SimilarAges : age >= policy.alert_cooldown) => decision
       /\ ~decision => \E age \in SimilarAges : age < policy.alert_cooldown

\* With a cooldown of two hours, an alert of the candidate's subject and
\* level exactly two hours older does not keep the candidate out.
C30_Witness ==
    /\ gpc = "gated" /\ decision
    /\ evaluation.alert_level = "WARNING"
    /\ policy.alert_cooldown = 2
    /\ 2 \in SimilarAges

\* C24: a non-critical candidate is denied for cooldown exactly when the
\* history holds an alert of the same subject and the same level (the level
\* is all an evaluation carries of type and severity) created within
\* cooldown_hours before the candidate; an alert of another subject or level
\* never causes a cooldown denial.
C24_CooldownBySameSubjectAndLevel ==
    (gpc = "gated" /\ evaluation.alert_level # "CRITICAL")
    => ((/\ evaluation.action_required
         /\ recent_similar_alerts(evaluation, history) # EmptyBag)
        <=> \E age \in SimilarAges : age >= 0 /\ age < policy.alert_cooldown)

\* A configuration the claim calls out of range.
OutOfRange ==
    \/ thresholds.warning_threshold < thresholds.critical_threshold
    \/ policy.alert_cooldown < 0
    \/ policy.max_alerts_per_day < 0

\* C23: a configuration with out-of-range threshold or policy values
\* (warning_threshold below critical_threshold, a negative cooldown, a
\* negative max_alerts_per_day) is rejected at startup: under it nothing is
\* ever evaluated or admitted.
C23_OutOfRangeConfigRejected ==
    OutOfRange => (gpc = "idle" /\ history = EmptyBag)

\* C27: once an alert is delivered, its sent_at time and its delivery_channel
\* never change again, whatever mark or send operations follow.
C27_DeliveredFieldsFrozen ==
    [][\A i \in DOMAIN alerts :
          alerts[i].delivery_status = "delivered"
              => /\ alerts'[i].sent_at = alerts[i].sent_at
                 /\ alerts'[i].delivery_channel = alerts[i].delivery_channel]_vars

\* C28: send_alerts_from_db reports success = True only when the store was
\* read: an invocation whose listing met a store failure returns success =
\* False, never a successful run with nothing to send.
C28_SuccessOnlyAfterRead ==
    \A c \in Coordinators :
        (cpc[c] = "idle" /\ inv[c].read_failed) => ~result[c].success

\* C21: get_alert_statistics reports, over the alerts created since the
\* cutoff, total, delivered and pending counts equal to the numbers of such
\* rows, with delivered + pending <= total, and a delivery rate of
\* delivered / total * 100 when total > 0 and of 0 when total = 0.
C21_StatisticsCountRows ==
    [][(spc = "idle" /\ spc' = "done" /\ statistics' # NoDict) =>
        LET st == statistics'
            since == {i \in DOMAIN alerts :
                        alerts[i].created_at >= now - st.period_days * HoursPerDay}
            d == Cardinality({i \in since : alerts[i].delivery_status = "delivered"})
            p == Cardinality({i \in since : alerts[i].delivery_status = "pending"})
        IN /\ st.total_alerts = Cardinality(since)
           /\ st.delivered_alerts = d
           /\ st.pending_alerts = p
           /\ st.delivered_alerts + st.pending_alerts <= st.total_alerts
           /\ IF st.total_alerts > 0
              THEN st.delivery_rate.num * st.total_alerts
                      = d * 100 * st.delivery_rate.den
              ELSE st.delivery_rate.num = 0]_vars

\* Statistics of today only: of two rows the one created an hour ago is left
\* out, the one created and delivered this hour is counted, the rate is 100.
C21_Witness ==
    /\ spc = "done" /\ statistics # NoDict
    /\ statistics.period_days = 0
    /\ Len(alerts) = 2
    /\ alerts[1].created_at < now
    /\ alerts[2].created_at = now /\ alerts[2].delivery_status = "delivered"
    /\ statistics.total_alerts = 1
    /\ statistics.delivered_alerts = 1
    /\ statistics.pending_alerts = 0
    /\ statistics.delivery_rate = [num |-> 100, den |-> 1]

\* C22: the trend is found by ordering the entries in time, splitting them
\* into a first and a second half and comparing the numbers of high or
\* critical entries of the halves: worsening when the later half has more,
\* improving when it has fewer, stable when they are equal; the magnitude is
\* the absolute difference of the two numbers.
C22_TrendComparesHalves ==
    tpc = "done" =>
        LET timed == {k \in DOMAIN results : "timestamp" \in DOMAIN results[k]}
            n == Cardinality(timed)
            Place(k) ==
                1 + Cardinality({j \in timed :
                        \/ results[j].timestamp < results[k].timestamp
                        \/ results[j].timestamp = results[k].timestamp /\ j < k})
            High(k) == /\ "overall_risk_level" \in DOMAIN results[k]
                       /\ results[k].overall_risk_level \in {"high", "critical"}
            first == Cardinality({k \in timed : Place(k) <= n \div 2 /\ High(k)})
            second == Cardinality({k \in timed : Place(k) > n \div 2 /\ High(k)})
        IN n >= 2 =>
             /\ trends.trend = (IF second > first THEN "worsening"
                                ELSE IF second < first THEN "improving"
                                ELSE "stable")
             /\ trends.change_magnitude
                  = (IF second > first THEN second - first ELSE first - second)

\* The entries are given latest first: the high entry is the later one, and
\* the trend is worsening with magnitude 1.
C22_Witness ==
    /\ tpc = "done"
    /\ results = <<[timestamp |-> 1, overall_risk_level |-> "high"],
                   [timestamp |-> 0, overall_risk_level |-> "low"]>>
    /\ trends.trend = "worsening"
    /\ trends.change_magnitude = 1

\* The rows and the shown alerts of the cycle process p is in.
RowsOf(p) == {i \in DOMAIN db : db[i].by = <<p, run[p]>>}
ShownOf(p) == {e \in AlertsIn(report_file \cup outbox) : e.by = <<p, run[p]>>}

\* C25: no alert of a cycle is handed to the notification channel or written
\* to a report before it is committed to the store, and a cycle that ends
\* between evaluate and persist leaves neither a row nor a message for its
\* candidates.
C25_PersistBeforeVisible ==
    /\ \A e \in AlertsIn(report_file \cup outbox) :
          \E i \in DOMAIN db : db[i].by = e.by /\ db[i].alert_type = e.type
    /\ \A p \in Processes :
          (/\ ppc[p] \in {"stopped", "fatal"}
           /\ left_at[p] = "evaluate" \/ todo[p] = cycle_alerts[p])
              => (RowsOf(p) = {} /\ ShownOf(p) = {})

\* A cycle with two alerts has saved the first and lost the second to a store
\* error: a row is kept, nothing of the cycle is reported or sent, while an
\* earlier cycle's alerts are in the report and the outbox.
C25_Witness ==
    /\ ppc["m1"] = "fatal"
    /\ Len(cycle_alerts["m1"]) = 2 /\ Len(todo["m1"]) = 1
    /\ RowsOf("m1") # {} /\ ShownOf("m1") = {}
    /\ AlertsIn(report_file) # {} /\ AlertsIn(outbox) # {}
====
